---- MODULE Spec2Model ----
(***************************************************************************)
(* Session-scoped inference pipeline of the AR assistance backend:         *)
(*   - the /assist route and the VRContextWorkflow behind it (llm.py),      *)
(*   - the /ask follow-up route (app/routes/ask.py),                        *)
(*   - the flat-file session context store (app/utils/session.py).          *)
(*                                                                         *)
(* Text that the code inspects character by character (session ids,        *)
(* follow-up answers) is a sequence of one-character strings.  Text the    *)
(* code only moves around (tasks, questions, model strings) is an opaque   *)
(* string.                                                                 *)
(***************************************************************************)
EXTENDS Integers, Sequences, FiniteSets, TLC

VARIABLES
    store,      \* context directory: file key -> file content
    req,        \* per worker: the request it is handling and where it is
    nreq,       \* requests that reached the core so far; doubles as datetime.utcnow()
    config,     \* app.config: CONTEXT_DIR and whether GEMINI_API_KEY is set
    fu_log,     \* per key: follow-ups completed since the file was last (re)created
    ptext,      \* parser harness: the answer text handed to the parser
    psteps,     \* parser harness: the steps the parser returned
    ppc         \* parser harness: "ready" before the call, "parsed" after

vars == <<store, req, nreq, config, fu_log, ptext, psteps, ppc>>

(***************************************************************************)
(* Bounds of the model.                                                    *)
(***************************************************************************)
MaxReqs == 3        \* requests that reach the core in one behaviour
MaxConcReqs == 2    \* the same, when the two workers interleave
MaxPieces == 4      \* pieces concatenated into one answer text of the parser harness

(***************************************************************************)
(* Characters.                                                             *)
(***************************************************************************)
NUL == "0"          \* stands for the byte \x00
NL == "\n"
Whitespace == {" ", NL}
DigitChars == {"1", "2"}

IsSpace(c) == c \in Whitespace
IsDigit(c) == c \in DigitChars

\* First index >= i of t whose character is not in S (Len(t)+1 when there is none).
RECURSIVE SkipWhile(_, _, _)
SkipWhile(t, i, S) ==
    IF i > Len(t) THEN Len(t) + 1
    ELSE IF t[i] \in S THEN SkipWhile(t, i + 1, S) ELSE i

\* Last index <= i of t whose character is not in S (0 when there is none).
RECURSIVE SkipBack(_, _, _)
SkipBack(t, i, S) ==
    IF i < 1 THEN 0
    ELSE IF t[i] \in S THEN SkipBack(t, i - 1, S) ELSE i

\* str.strip(): leading and trailing whitespace removed.
Strip(t) ==
    LET a == SkipWhile(t, 1, Whitespace)
        b == SkipBack(t, Len(t), Whitespace)
    IN  IF a > b THEN <<>> ELSE SubSeq(t, a, b)

\* str.replace(c, ''): every occurrence of character c removed.
RemoveChar(t, c) == SelectSeq(t, LAMBDA x : x # c)

(***************************************************************************)
(* app/utils/validation.py                                                 *)
(***************************************************************************)
max_length == 256

\* sanitize_string: "" for an empty input, else null bytes removed, stripped,
\* cut to max_length characters.
sanitize_string(input_str) ==
    IF input_str = <<>> THEN <<>>
    ELSE LET sanitized == Strip(RemoveChar(input_str, NUL))
         IN  IF Len(sanitized) > max_length
             THEN SubSeq(sanitized, 1, max_length)
             ELSE sanitized

(***************************************************************************)
(* The numbered-list parser of the follow-up route (ask.py, step 7).       *)
(***************************************************************************)
\* The pattern \n\s*\d+\.\s+ tried at index i of t: the index just after the
\* match, or 0 when the pattern does not match at i.  Every quantifier is
\* greedy and none can give a character back to its successor (a digit is no
\* whitespace, a period is no digit), so the match at i is unique.
MarkerEnd(t, i) ==
    IF i > Len(t) \/ t[i] # NL THEN 0
    ELSE LET j == SkipWhile(t, i + 1, Whitespace)
             k == SkipWhile(t, j, DigitChars)
         IN  IF k = j \/ k > Len(t) \/ t[k] # "." THEN 0
             ELSE LET m == SkipWhile(t, k + 1, Whitespace)
                  IN  IF m = k + 1 THEN 0 ELSE m

\* Leftmost index >= i at which the pattern matches (0 when there is none).
RECURSIVE NextMarker(_, _)
NextMarker(t, i) ==
    IF i > Len(t) THEN 0
    ELSE IF MarkerEnd(t, i) # 0 THEN i ELSE NextMarker(t, i + 1)

\* re.split(r'\n\s*\d+\.\s+', t) on the part of t that starts at index pos.
RECURSIVE SplitFrom(_, _)
SplitFrom(t, pos) ==
    LET i == NextMarker(t, pos)
    IN  IF i = 0 THEN << SubSeq(t, pos, Len(t)) >>
        ELSE << SubSeq(t, pos, i - 1) >> \o SplitFrom(t, MarkerEnd(t, i))

re_split(t) == SplitFrom(t, 1)

\* [f(x) for x in s]
RECURSIVE MapStrip(_)
MapStrip(s) == IF s = <<>> THEN <<>> ELSE << Strip(Head(s)) >> \o MapStrip(Tail(s))

\* A slip of the parser: the whole-answer fallback is left out.
parse_answer_steps_nofallback(answer_text) ==
    LET steps == re_split(answer_text)
        rest == IF steps # <<>> /\ Strip(steps[1]) = <<>> THEN Tail(steps) ELSE steps
    IN  SelectSeq(MapStrip(rest), LAMBDA x : x # <<>>)

\* ask.py lines 170-182: split, drop an empty first element, strip, drop empty
\* fragments, fall back to the whole stripped answer.
parse_answer_steps(answer_text) ==
    LET steps == re_split(answer_text)
        rest == IF steps # <<>> /\ Strip(steps[1]) = <<>> THEN Tail(steps) ELSE steps
        answer_steps == SelectSeq(MapStrip(rest), LAMBDA x : x # <<>>)
    IN  IF answer_steps = <<>> THEN << Strip(answer_text) >> ELSE answer_steps


(***************************************************************************)
(* Answer texts of the parser harness: up to MaxPieces pieces, each a      *)
(* fragment a model answer is made of, concatenated.                       *)
(***************************************************************************)
Pieces ==
    << <<"1", ".", " ">>,           \* "1. "
       <<NL, "2", ".", " ">>,       \* "\n2. "
       <<"a">>, <<"b">>, <<" ">>, <<NL>>, <<"1">>, <<".">> >>

RECURSIVE Concat(_)
Concat(ss) == IF ss = <<>> THEN <<>> ELSE Head(ss) \o Concat(Tail(ss))

TextOf(ix) == Concat([i \in 1..Len(ix) |-> Pieces[ix[i]]])

Texts == { TextOf(ix) : ix \in UNION { [1..n -> 1..Len(Pieces)] : n \in 0..MaxPieces } }


(***************************************************************************)
(* JSON values as the code tells them apart.  k is the kind:               *)
(*   "absent"  the key is not in its object                                *)
(*   "null"    None                                                        *)
(*   "str"     a string, s                                                 *)
(*   "list"    a list of strings, l                                        *)
(*   "other"   a true number or a nested object: truthy, not a string,     *)
(*             not a list, not sliceable                                   *)
(***************************************************************************)
Absent == [k |-> "absent", s |-> "", l |-> <<>>]
Null == [k |-> "null", s |-> "", l |-> <<>>]
Str(x) == [k |-> "str", s |-> x, l |-> <<>>]
List(xs) == [k |-> "list", s |-> "", l |-> xs]
Other == [k |-> "other", s |-> "", l |-> <<>>]

\* dict.get(key, default)
Get(v, default) == IF v.k = "absent" THEN default ELSE v

(***************************************************************************)
(* A JSON document the model may answer /assist with.  top is "object" for *)
(* a JSON object and "other" for any other JSON value; instruction.k is    *)
(* "dict" for a nested object, else "absent", "null" or "other".           *)
(***************************************************************************)
NoInstruction ==
    [k |-> "absent", steps |-> Absent, text |-> Absent,
     target_id |-> Absent, haptic_cue |-> Absent]

Nested(steps, text, target_id, haptic_cue) ==
    [k |-> "dict", steps |-> steps, text |-> text,
     target_id |-> target_id, haptic_cue |-> haptic_cue]

Doc(top, image_analysis, instruction, instruction_text, target_id, haptic_cue) ==
    [top |-> top, image_analysis |-> image_analysis, instruction |-> instruction,
     instruction_text |-> instruction_text, target_id |-> target_id,
     haptic_cue |-> haptic_cue]


(***************************************************************************)
(* The text of a model response to /assist, as the pieces the parser can   *)
(* tell apart: a code fence (```), a run of prose without braces, or the   *)
(* text of one JSON value (d: its index in AssistDocs).  The text of a     *)
(* JSON object starts with "{" and ends with "}"; no other piece holds a   *)
(* brace.                                                                  *)
(***************************************************************************)
AssistDocs ==
    << \* 1: the schema of the prompt
       Doc("object", Str("scene"),
           Nested(List(<<"Locate the cable", "Insert it">>), Absent, Str("J1"),
                  Str("guide_to_target")),
           Absent, Absent, Absent),
       \* 2: empty steps, a text, a haptic cue outside the enumeration
       Doc("object", Str("scene"),
           Nested(List(<<>>), Str("Do it"), Str("J1"), Str("invalid_cue")),
           Absent, Absent, Absent),
       \* 3: steps given as one string, a text, no haptic cue
       Doc("object", Str("scene"),
           Nested(Str("Insert it"), Str("Do it"), Str("J1"), Absent),
           Absent, Absent, Absent),
       \* 4: the flat layout beside "instruction": null, haptic cue not a string
       Doc("object", Str("scene"), [NoInstruction EXCEPT !.k = "null"],
           Str("Do it"), Str("J1"), Other),
       \* 5: a one-step list, haptic cue null
       Doc("object", Str("scene"),
           Nested(List(<<"Do it">>), Absent, Str("J1"), Null),
           Absent, Absent, Absent),
       \* 6: the flat layout, no instruction key
       Doc("object", Str("Error parsing analysis"), NoInstruction,
           Str("Do it"), Str("J1"), Str("success_pulse")),
       \* 7: image_analysis is a number
       Doc("object", Other,
           Nested(List(<<"Insert it">>), Absent, Str("J1"), Str("success_pulse")),
           Absent, Absent, Absent),
       \* 8: valid JSON that is not an object
       Doc("other", Absent, NoInstruction, Absent, Absent, Absent),
       \* 9: an object with none of the keys
       Doc("object", Absent, NoInstruction, Absent, Absent, Absent) >>

Fence == [t |-> "fence", d |-> 0]
Prose == [t |-> "prose", d |-> 0]
Json(d) == [t |-> "json", d |-> d]

\* The responses the model is driven with.
AssistContents ==
    { << Json(d) >> : d \in {1, 2, 4, 7} }
    \cup { << Fence, Json(1), Fence >>,         \* fenced JSON
           << Prose >> }                        \* no JSON at all

HasBrace(tok) == tok.t = "json" /\ AssistDocs[tok.d].top = "object"

\* content.find('{') and content.rfind('}'), as piece indexes (0 for -1).
FirstBrace(content) ==
    IF \E i \in 1..Len(content) : HasBrace(content[i])
    THEN CHOOSE i \in 1..Len(content) :
            HasBrace(content[i]) /\ \A j \in 1..(i - 1) : ~HasBrace(content[j])
    ELSE 0

LastBrace(content) ==
    IF \E i \in 1..Len(content) : HasBrace(content[i])
    THEN CHOOSE i \in 1..Len(content) :
            HasBrace(content[i]) /\ \A j \in (i + 1)..Len(content) : ~HasBrace(content[j])
    ELSE 0

\* A slip: a fenced response is handed to json.loads as it came.
extract_json_keeping_fences(content) == content

\* llm.py 298-304: inside a fenced response keep first "{" .. last "}".
extract_json(content) ==
    IF \E i \in 1..Len(content) : content[i].t = "fence"
    THEN IF FirstBrace(content) # 0 /\ LastBrace(content) # 0
         THEN SubSeq(content, FirstBrace(content), LastBrace(content))
         ELSE content
    ELSE content

\* json.loads succeeds exactly on the text of one JSON value.
JsonLoadsOk(content) == Len(content) = 1 /\ content[1].t = "json"

\* llm.py 315-320: the dict used when parsing failed.  Its instruction text is
\* under the key step_text, which nothing reads.
FallbackResult ==
    Doc("object", Str("Error parsing analysis"), NoInstruction,
        Absent, Str(""), Str("none"))

\* llm.py 293-320: result of the try block.  result.keys() raises
\* AttributeError on a JSON value that is not an object, which is caught
\* together with JSONDecodeError.
parse_result(response_content) ==
    LET content == extract_json(response_content)
    IN  IF JsonLoadsOk(content) /\ AssistDocs[content[1].d].top = "object"
        THEN AssistDocs[content[1].d]
        ELSE FallbackResult

valid_cues == {"guide_to_target", "success_pulse", "none"}

\* A slip: the haptic cue is passed through unchecked.
coerce_haptic_cue_unchecked(v) == v

\* llm.py 348-349
coerce_haptic_cue(v) ==
    IF v.k = "str" /\ v.s \in valid_cues THEN v ELSE Str("none")

\* [text] if isinstance(text, str) else ["No instruction available"]
AsSingleStep(text) ==
    IF text.k = "str" THEN List(<< text.s >>) ELSE List(<< "No instruction available" >>)

\* A slip: an empty steps list is stored as it came.
instruction_steps_of_unguarded(result) ==
    IF result.instruction.k \in {"dict", "absent"}
    THEN Get(result.instruction.steps, List(<<>>))
    ELSE AsSingleStep(Get(result.instruction_text, Str("No instruction available")))

\* llm.py 327-344: state["instruction_text"]
instruction_steps_of(result) ==
    IF result.instruction.k \in {"dict", "absent"}      \* .get default is {}
    THEN LET steps == Get(result.instruction.steps, List(<<>>))
         IN  IF steps.k = "list" /\ Len(steps.l) > 0
             THEN steps
             ELSE AsSingleStep(Get(result.instruction.text,
                                   Str("No instruction available")))
    ELSE AsSingleStep(Get(result.instruction_text, Str("No instruction available")))


(***************************************************************************)
(* The workflow state dict of llm.py (the keys the nodes write).           *)
(* error = "" stands for "no error key".                                   *)
(***************************************************************************)
InitialState ==
    [error |-> "", image_analysis |-> Absent, instruction_text |-> Absent,
     target_id |-> Absent, haptic_cue |-> Absent]

\* llm.py 322-349: the state after a response was parsed into result.
set_state(result) ==
    LET nested == result.instruction.k \in {"dict", "absent"}
        cue == IF nested THEN Get(result.instruction.haptic_cue, Str("none"))
                         ELSE Get(result.haptic_cue, Str("none"))
    IN  [error |-> "",
         image_analysis |-> Get(result.image_analysis, Str("No analysis available")),
         instruction_text |-> instruction_steps_of(result),
         target_id |-> IF nested THEN Get(result.instruction.target_id, Str(""))
                                 ELSE Get(result.target_id, Str("")),
         haptic_cue |-> coerce_haptic_cue(cue)]

\* llm.py 357: state['image_analysis'][:100] if state['image_analysis'] raises
\* TypeError on a truthy value that cannot be sliced.
DebugPrintRaises(st) == st.image_analysis.k = "other"

\* A slip: the error branch leaves the instruction text empty.
failed_state_empty(detail) ==
    [error |-> IF detail = "API Error"
               THEN "Analysis and instruction failed: API Error"
               ELSE "Analysis and instruction failed: TypeError",
     image_analysis |-> Str(IF detail = "API Error" THEN "Error: API Error"
                                                    ELSE "Error: TypeError"),
     instruction_text |-> List(<<>>),
     target_id |-> Str(""),
     haptic_cue |-> Str("none")]

\* llm.py 364-374: the state after an exception left the node's try block.
failed_state(detail) ==
    [error |-> IF detail = "API Error"
               THEN "Analysis and instruction failed: API Error"
               ELSE "Analysis and instruction failed: TypeError",
     image_analysis |-> Str(IF detail = "API Error" THEN "Error: API Error"
                                                    ELSE "Error: TypeError"),
     instruction_text |-> Str("System error. Please try again."),
     target_id |-> Str(""),
     haptic_cue |-> Str("none")]

\* A slip: the missing image is noted in the texts only, not as an error.
no_image_state_without_error ==
    [error |-> "",
     image_analysis |-> Str("Error: No image data"),
     instruction_text |-> Str("Error: No image to analyze"),
     target_id |-> Str(""),
     haptic_cue |-> Str("none")]

\* llm.py 151-158: the state when current_image is None or empty.
no_image_state ==
    [error |-> "No image data provided",
     image_analysis |-> Str("Error: No image data"),
     instruction_text |-> Str("Error: No image to analyze"),
     target_id |-> Str(""),
     haptic_cue |-> Str("none")]

\* llm.py 289-362: everything after a response arrived.
state_after_response(response_content) ==
    LET st == set_state(parse_result(response_content))
    IN  IF DebugPrintRaises(st) THEN failed_state("TypeError") ELSE st

\* A slip: one attempt too many.
max_retries_off_by_one == 2 + 1

max_retries == 2

(***************************************************************************)
(* Context files.  kind: "none" (no file), "corrupt" (bytes that are not   *)
(* JSON), "json" (a JSON object), "value" (JSON that is not an object).    *)
(* keys: what the test "field in context_data" finds: the top-level keys   *)
(* of an object, the string elements of an array, nothing in a number.     *)
(***************************************************************************)
NoFile ==
    [kind |-> "none", keys |-> {}, session_id |-> <<>>, timestamp |-> 0,
     task |-> <<>>, step |-> <<>>, gaze_vector |-> "", image_analysis |-> Absent,
     instruction |-> [steps |-> Absent, target_id |-> Absent, haptic_cue |-> Absent],
     follow_up_qa |-> <<>>, error |-> Absent]

CorruptFile == [NoFile EXCEPT !.kind = "corrupt"]

AssistKeys ==
    {"session_id", "timestamp", "task", "step", "gaze_vector", "image_analysis",
     "instruction", "error"}

required_fields == {"session_id", "task", "step", "image_analysis", "instruction"}

\* session_context['follow_up_qa'] when the key is there, else nothing
QA(file) == IF "follow_up_qa" \in file.keys THEN file.follow_up_qa ELSE <<>>


(***************************************************************************)
(* Inputs the requests are driven with.                                    *)
(***************************************************************************)
Workers == {"w1", "w2"}
Dirs == {"contexts", "data"}
RawSessionIds == { <<"s">>, <<" ">>, <<>> }     \* <<>>: no session_id sent
Uuids == { <<"u">> }                            \* what uuid.uuid4() may return
Keys == { sanitize_string(r) : r \in RawSessionIds } \cup Uuids
RawTasks == { <<"p">>, <<"q", " ">> }
RawSteps == { <<"4">> }
\* The gaze_vector form field: what json.loads makes of it ("invalid" when it
\* raises JSONDecodeError), the keys of an object, whether its x, y, z are
\* numbers, and the parsed value.
GazeStrs ==
    { [json |-> "object", keys |-> {"x", "y", "z"}, numeric |-> TRUE, gaze |-> "g"],
      [json |-> "object", keys |-> {"x", "y"}, numeric |-> TRUE, gaze |-> "h"],
      [json |-> "object", keys |-> {"x", "y", "z"}, numeric |-> FALSE, gaze |-> "i"],
      [json |-> "invalid", keys |-> {}, numeric |-> FALSE, gaze |-> ""],
      [json |-> "number", keys |-> {}, numeric |-> FALSE, gaze |-> "5"] }
RawQuestions == { <<"x">>, <<"y", NUL>>, <<>> } \* <<>>: no question sent
AnswerTexts ==
    { <<"1", ".", " ", "a", NL, "2", ".", " ", "b">>,  \* "1. a\n2. b"
      <<" ", "a">> }                                   \* " a"
AuthInputs == {"ok", "bad"}
AssistForms == {"ok", "missing", "bad_image", "image_too_large"}
AskForms == {"ok", "bad_content_type", "bad_audio", "audio_too_large",
             "transcription_failed"}
WriteOutcomes == {"ok", "open_fails", "dump_fails"}

(***************************************************************************)
(* Responses.  code = 0: none yet.                                         *)
(***************************************************************************)
NoResp ==
    [code |-> 0, status |-> "", error_code |-> "", error |-> "",
     session_id |-> <<>>, instruction_steps |-> Absent, target_id |-> Absent,
     haptic_cue |-> Absent, answer_steps |-> <<>>, task |-> <<>>, step |-> <<>>,
     previous_instruction |-> <<>>]

\* A slip: no handler is registered, the framework's own page is sent.
http_error_unregistered(code) == [NoResp EXCEPT !.code = code]

\* main.py 133-185: the handlers of the werkzeug exceptions the routes re-raise.
http_error(code) ==
    [NoResp EXCEPT !.code = code, !.status = "error",
                   !.error_code = CASE code = 400 -> "BAD_REQUEST"
                                    [] code = 401 -> "AUTH_FAILED"
                                    [] code = 404 -> "NOT_FOUND"
                                    [] code = 413 -> "IMAGE_TOO_LARGE"
                                    [] OTHER -> "INTERNAL_ERROR",
                   !.error = CASE code = 400 -> "Bad request"
                               [] code = 401 -> "Unauthorized"
                               [] code = 404 -> "Not found"
                               [] code = 413 -> "Request entity too large"
                               [] OTHER -> "Internal server error"]

\* A slip: the failure is reported as a missing session.
error_500_as_not_found(message, session_id) ==
    [NoResp EXCEPT !.code = 404, !.status = "error", !.error_code = "NOT_FOUND",
                   !.error = message, !.session_id = session_id]

\* assist.py 146-161 and ask.py 234-249: the except Exception branch.
error_500(message, session_id) ==
    [NoResp EXCEPT !.code = 500, !.status = "error", !.error_code = "LLM_ERROR",
                   !.error = message, !.session_id = session_id]

\* No prompt was built yet.
NoPrompt ==
    [task |-> <<>>, step |-> <<>>, image_analysis |-> Absent,
     previous_instruction |-> <<>>, question |-> <<>>]

(***************************************************************************)
(* A worker: idle, or somewhere in one request.                            *)
(*   pc: "idle", "analyze" (assist, before an inference attempt), "save"   *)
(*       (assist, before the save_context node), "loaded" (ask, after the  *)
(*       context was read), "done" (response built, not yet sent)          *)
(*   outcomes: one entry per inference attempt made                        *)
(*   writes: write attempts on the context file                            *)
(*   rejected: what was wrong with the request, when the route stopped     *)
(*       over its input                                                    *)
(***************************************************************************)
Idle ==
    [pc |-> "idle", kind |-> "none", raw_sid |-> <<>>, sid |-> <<>>, task |-> <<>>, step |-> <<>>,
     gaze |-> "", image |-> "", question |-> <<>>, attempt |-> 0,
     outcomes |-> <<>>, writes |-> 0, st |-> InitialState, ctx |-> NoFile,
     prompt |-> NoPrompt, rejected |-> "", resp |-> NoResp]

Raised == [raised |-> TRUE, content |-> <<>>]
Returned(content) == [raised |-> FALSE, content |-> content]

Done(r, resp) == [r EXCEPT !.pc = "done", !.resp = resp]


\* The file a session id leads to when it is put into the path
\* "<dir>/<session_id>.json": the operating system skips "./" in front of
\* the name, so "./s" and "s" are one file.
RECURSIVE file_key(_)
file_key(session_id) ==
    IF Len(session_id) >= 2 /\ session_id[1] = "." /\ session_id[2] = "/"
    THEN file_key(SubSeq(session_id, 3, Len(session_id)))
    ELSE session_id


\* llm.py 113: f"contexts/{session_id}.json"; session.py 34 and ask.py 197:
\* Path(context_dir) / f"{session_id}.json"
path_of(dir, session_id) == <<dir, file_key(session_id)>>

(***************************************************************************)
(* POST /assist                                                            *)
(***************************************************************************)
\* validation.py 42-65: (is_valid, gaze, error) or, as "raised", the TypeError
\* of "k in gaze" on a JSON number, which only the route catches.
validate_gaze_vector(gaze_str) ==
    CASE gaze_str.json = "invalid" -> [raised |-> FALSE, is_valid |-> FALSE, gaze |-> ""]
      [] gaze_str.json = "number" -> [raised |-> TRUE, is_valid |-> FALSE, gaze |-> ""]
      [] gaze_str.json = "object" /\ ~({"x", "y", "z"} \subseteq gaze_str.keys) ->
            [raised |-> FALSE, is_valid |-> FALSE, gaze |-> ""]
      [] gaze_str.json = "object" /\ {"x", "y", "z"} \subseteq gaze_str.keys
            /\ ~gaze_str.numeric ->
            [raised |-> FALSE, is_valid |-> FALSE, gaze |-> ""]
      [] OTHER -> [raised |-> FALSE, is_valid |-> TRUE, gaze |-> gaze_str.gaze]

\* The request r, stopped over its input with response resp.
Rejected(r, what, resp) == Done([r EXCEPT !.rejected = what], resp)

\* A slip: a new id is made for every request.
generated_session_id(raw_sid, uuid) == uuid

\* assist.py 77-81: the caller's id, sanitized, or str(uuid.uuid4()).
chosen_session_id(raw_sid, uuid) ==
    IF raw_sid = <<>> THEN uuid ELSE sanitize_string(raw_sid)

\* assist.py steps 1-9: authenticate, validate, sanitize, choose the session
\* id, check the workflow, hand the initial state to VRContextWorkflow.run.
assist_on(w, max, session_ids) ==
    /\ req[w].pc = "idle"
    /\ nreq < max
    /\ \E auth \in AuthInputs, form \in AssistForms, raw_sid \in session_ids,
          raw_task \in RawTasks, raw_step \in RawSteps,
          gaze_vector_str \in GazeStrs, uuid \in Uuids :
        LET session_id == chosen_session_id(raw_sid, uuid)
            checked == validate_gaze_vector(gaze_vector_str)
            r == [Idle EXCEPT !.kind = "assist"]
        IN  req' = [req EXCEPT ![w] =
                CASE auth # "ok" -> Rejected(r, "auth", http_error(401))
                  [] auth = "ok" /\ form = "image_too_large" ->
                        Rejected(r, "image", http_error(413))
                  [] auth = "ok" /\ form = "bad_image" ->
                        Rejected(r, "image", http_error(400))
                  [] auth = "ok" /\ form = "missing" ->
                        Rejected(r, "fields", http_error(400))
                  [] auth = "ok" /\ form = "ok" /\ checked.raised ->
                        Rejected(r, "gaze", error_500("TypeError", raw_sid))
                  [] auth = "ok" /\ form = "ok" /\ ~checked.raised
                        /\ ~checked.is_valid ->
                        Rejected(r, "gaze", http_error(400))
                  [] auth = "ok" /\ form = "ok" /\ ~checked.raised
                        /\ checked.is_valid /\ ~config.GEMINI_API_KEY ->
                        Done(r, error_500("VRContextWorkflow not initialized", session_id))
                  [] OTHER ->
                        [r EXCEPT !.pc = "analyze", !.raw_sid = raw_sid,
                                  !.sid = session_id,
                                  !.task = sanitize_string(raw_task),
                                  !.step = sanitize_string(raw_step),
                                  !.gaze = checked.gaze, !.image = "b64"]]
    /\ nreq' = IF req'[w].pc = "analyze" THEN nreq + 1 ELSE nreq
    /\ UNCHANGED <<store, config, fu_log, ptext, psteps, ppc>>

\* POST /assist with any of the session ids of the main input set.
assist(w, max) == assist_on(w, max, RawSessionIds)

\* llm.py 143-374, one pass of the retry loop: an inference attempt and what
\* follows it.  Without an image the node returns the error state and calls
\* nothing.  A raise on an attempt before the last sleeps and loops; a raise
\* on the last attempt, or an exception while the response is processed, ends
\* the node in the error state; a response is parsed into the state.
analyze_and_instruct(w) ==
    /\ req[w].pc = "analyze"
    /\ IF req[w].image = ""
       THEN req' = [req EXCEPT ![w].st = no_image_state, ![w].pc = "save"]
       ELSE \/ /\ req[w].attempt < max_retries - 1
               /\ req' = [req EXCEPT ![w].attempt = @ + 1,
                                     ![w].outcomes = Append(@, Raised)]
            \/ /\ req[w].attempt >= max_retries - 1
               /\ req' = [req EXCEPT ![w].outcomes = Append(@, Raised),
                                     ![w].st = failed_state("API Error"),
                                     ![w].pc = "save"]
            \/ \E content \in AssistContents :
                 req' = [req EXCEPT ![w].outcomes = Append(@, Returned(content)),
                                    ![w].st = state_after_response(content),
                                    ![w].pc = "save"]
    /\ UNCHANGED <<store, nreq, config, fu_log, ptext, psteps, ppc>>

\* A slip: the node saves whatever state it is given.
skips_save_never(st) == FALSE

\* llm.py 79-80: if state.get("error"): return state
skips_save(st) == st.error # ""

\* llm.py 94-107: the record save_context writes.
context_data(r, now) ==
    [kind |-> "json", keys |-> AssistKeys, session_id |-> r.sid, timestamp |-> now,
     task |-> r.task, step |-> r.step, gaze_vector |-> r.gaze,
     image_analysis |-> r.st.image_analysis,
     instruction |-> [steps |-> IF r.st.instruction_text.k = "str"
                                THEN List(<< r.st.instruction_text.s >>)
                                ELSE r.st.instruction_text,
                      target_id |-> r.st.target_id,
                      haptic_cue |-> r.st.haptic_cue],
     follow_up_qa |-> <<>>, error |-> Null]

\* A slip: the follow-up history does not reach the file.
written_without_history(old, new, outcome) ==
    CASE outcome = "ok" -> [new EXCEPT !.follow_up_qa = <<>>]
      [] outcome = "open_fails" -> old
      [] OTHER -> CorruptFile

\* A slip: a record is not replaced by one with an older timestamp.
written_unless_older(old, new, outcome) ==
    CASE outcome = "ok" ->
            IF old.kind = "json" /\ old.timestamp > new.timestamp THEN old ELSE new
      [] outcome = "open_fails" -> old
      [] OTHER -> CorruptFile

\* A slip: a write that fails removes the file it was writing.
written_or_removed(old, new, outcome) ==
    CASE outcome = "ok" -> new
      [] OTHER -> NoFile

\* A slip: the write re-reads the file and adds the newest entry to what it
\* finds there.
written_merging(old, new, outcome) ==
    CASE outcome = "ok" ->
            IF QA(new) = <<>> \/ old.kind # "json" THEN new
            ELSE [new EXCEPT !.follow_up_qa = Append(QA(old), QA(new)[Len(QA(new))])]
      [] outcome = "open_fails" -> old
      [] OTHER -> CorruptFile

\* open(path, "w") followed by json.dump: the new content, the old content
\* when the file could not be opened, a truncated file when the dump failed.
written(old, new, outcome) ==
    CASE outcome = "ok" -> new
      [] outcome = "open_fails" -> old
      [] OTHER -> CorruptFile

\* A slip: the error of the final state is not looked at.
assist_response_ignoring_error(st, session_id) ==
    [NoResp EXCEPT !.code = 200, !.status = "success",
                   !.session_id = session_id,
                   !.instruction_steps =
                       IF st.instruction_text.k = "str"
                       THEN List(<< st.instruction_text.s >>)
                       ELSE Get(st.instruction_text, List(<<>>)),
                   !.target_id = Get(st.target_id, Str("")),
                   !.haptic_cue = Get(st.haptic_cue, Str("none"))]

\* assist.py steps 10-11: the response for the final workflow state.
assist_response(st, session_id) ==
    IF st.error # ""
    THEN error_500(st.error, session_id)
    ELSE [NoResp EXCEPT !.code = 200, !.status = "success",
                        !.session_id = session_id,
                        !.instruction_steps =
                            IF st.instruction_text.k = "str"
                            THEN List(<< st.instruction_text.s >>)
                            ELSE Get(st.instruction_text, List(<<>>)),
                        !.target_id = Get(st.target_id, Str("")),
                        !.haptic_cue = Get(st.haptic_cue, Str("none"))]

\* llm.py 74-141, then the rest of the route: the save_context node returns
\* the state untouched when it carries an error, else writes
\* contexts/<session_id>.json; the route answers from the final state.
save_context(w) ==
    /\ req[w].pc = "save"
    /\ \/ /\ skips_save(req[w].st)
          /\ req' = [req EXCEPT ![w] =
                        Done(req[w], assist_response(req[w].st, req[w].sid))]
          /\ UNCHANGED <<store, fu_log>>
       \/ /\ ~skips_save(req[w].st)
          /\ \E outcome \in WriteOutcomes :
                LET path == path_of("contexts", req[w].sid)
                    st == IF outcome = "ok" THEN req[w].st
                          ELSE [req[w].st EXCEPT !.error = "Context save failed: OSError"]
                IN  /\ store' = [store EXCEPT ![path] =
                            written(@, context_data(req[w], nreq), outcome)]
                    /\ fu_log' = [fu_log EXCEPT ![path] =
                            CASE outcome = "ok" -> [ok |-> TRUE, log |-> <<>>]
                              [] outcome = "open_fails" -> @
                              [] OTHER -> [ok |-> FALSE, log |-> <<>>]]
                    /\ req' = [req EXCEPT ![w] =
                            Done([req[w] EXCEPT !.st = st, !.writes = @ + 1],
                                 assist_response(st, req[w].sid))]
    /\ UNCHANGED <<nreq, config, ptext, psteps, ppc>>


(***************************************************************************)
(* POST /ask                                                               *)
(***************************************************************************)
\* A slip: a missing file is taken for a loaded context.
load_session_context_missing_ok(file) ==
    CASE file.kind = "corrupt" -> "error"
      [] file.kind \in {"json", "value"} /\ ~(required_fields \subseteq file.keys) -> "error"
      [] OTHER -> "ok"

\* A slip: the required fields are not asked for.
load_session_context_lenient(file) ==
    CASE file.kind = "none" -> "none"
      [] file.kind = "corrupt" -> "error"
      [] OTHER -> "ok"

\* session.py 10-57: "none" for None, "error" for ValueError, else "ok".
load_session_context(file) ==
    CASE file.kind = "none" -> "none"
      [] file.kind = "corrupt" -> "error"
      [] file.kind \in {"json", "value"} /\ ~(required_fields \subseteq file.keys) -> "error"
      [] OTHER -> "ok"

\* A slip: a single string is not wrapped into a list.
bulleted_lists_only(steps) ==
    LET l == IF steps.k = "str" THEN <<>> ELSE steps.l
    IN  [i \in 1..Len(l) |-> << "- ", l[i] >>]

\* ask.py 129-132: "\n".join(f"- {step}" for step in instruction_steps)
bulleted(steps) ==
    LET l == IF steps.k = "str" THEN << steps.s >> ELSE steps.l
    IN  [i \in 1..Len(l) |-> << "- ", l[i] >>]

\* ask.py steps 1-5: authenticate, read the body, validate, sanitize, load the
\* session context; the first session_context.get of step 6 raises
\* AttributeError on a loaded value that is not a dict.
ask_on(w, max, session_ids) ==
    /\ req[w].pc = "idle"
    /\ nreq < max
    /\ \E auth \in AuthInputs, form \in AskForms, raw_sid \in session_ids,
          raw_question \in RawQuestions :
        LET session_id == sanitize_string(raw_sid)
            question == sanitize_string(raw_question)
            file == store[path_of(config.CONTEXT_DIR, session_id)]
            loaded == load_session_context(file)
            r == [Idle EXCEPT !.kind = "ask"]
            v == [r EXCEPT !.sid = session_id, !.question = question]
        IN  req' = [req EXCEPT ![w] =
                CASE auth # "ok" -> Rejected(r, "auth", http_error(401))
                  [] auth = "ok" /\ form = "audio_too_large" ->
                        Rejected(r, "audio", http_error(413))
                  [] auth = "ok" /\ form = "bad_audio" ->
                        Rejected(r, "audio", http_error(400))
                  [] auth = "ok" /\ form = "transcription_failed" ->
                        Rejected(r, "transcription", http_error(400))
                  [] auth = "ok" /\ form = "bad_content_type" ->
                        Rejected(r, "fields", http_error(400))
                  [] auth = "ok" /\ form = "ok"
                        /\ (raw_sid = <<>> \/ raw_question = <<>>) ->
                        Rejected(r, "fields", http_error(400))
                  [] auth = "ok" /\ form = "ok" /\ raw_sid # <<>>
                        /\ raw_question # <<>> /\ loaded = "none" ->
                        Done(v, http_error(404))
                  [] auth = "ok" /\ form = "ok" /\ raw_sid # <<>>
                        /\ raw_question # <<>> /\ loaded = "error" ->
                        Done(v, error_500("Error loading session context", session_id))
                  [] auth = "ok" /\ form = "ok" /\ raw_sid # <<>>
                        /\ raw_question # <<>> /\ loaded = "ok"
                        /\ file.kind = "value" ->      \* session_context.get
                        Done(v, error_500("AttributeError", session_id))
                  [] OTHER -> [v EXCEPT !.pc = "loaded", !.ctx = file]]
    /\ nreq' = IF req'[w].pc = "loaded" THEN nreq + 1 ELSE nreq
    /\ UNCHANGED <<store, config, fu_log, ptext, psteps, ppc>>

\* POST /ask with any of the session ids of the main input set.
ask(w, max) == ask_on(w, max, RawSessionIds)

\* A slip: the new entry replaces the history instead of joining it.
append_follow_up_replacing(session_context, now, question, answer_steps) ==
    [session_context EXCEPT
        !.keys = @ \cup {"follow_up_qa"},
        !.follow_up_qa = << [timestamp |-> now, question |-> question,
                             answer_steps |-> answer_steps] >>]

\* A slip: only the identity and the history of the session are written back.
append_follow_up_as_patch(session_context, now, question, answer_steps) ==
    [session_context EXCEPT
        !.keys = (@ \cup {"follow_up_qa"}) \ {"instruction", "image_analysis"},
        !.instruction = NoFile.instruction,
        !.image_analysis = Absent,
        !.follow_up_qa = Append(QA(session_context),
                                [timestamp |-> now, question |-> question,
                                 answer_steps |-> answer_steps])]

\* ask.py 184-192: session_context['follow_up_qa'].append({...})
append_follow_up(session_context, now, question, answer_steps) ==
    [session_context EXCEPT
        !.keys = @ \cup {"follow_up_qa"},
        !.follow_up_qa = Append(QA(session_context),
                                [timestamp |-> now, question |-> question,
                                 answer_steps |-> answer_steps])]

\* ask.py 122-151: what the f-string of the prompt embeds.
prompt_of(session_context, question) ==
    [task |-> session_context.task, step |-> session_context.step,
     image_analysis |-> session_context.image_analysis,
     previous_instruction |->
         bulleted(Get(session_context.instruction.steps, List(<<>>))),
     question |-> question]

\* ask.py steps 6-9: build the prompt, ask the model once, parse the answer,
\* append it to the loaded context, write the whole context back, answer.
ask_answer(w) ==
    /\ req[w].pc = "loaded"
    /\ \/ /\ ~config.GEMINI_API_KEY
          /\ req' = [req EXCEPT ![w] =
                Done(req[w], error_500("GEMINI_API_KEY not configured", req[w].sid))]
          /\ UNCHANGED <<store, fu_log>>
       \/ /\ config.GEMINI_API_KEY
          /\ req' = [req EXCEPT ![w] =
                Done([req[w] EXCEPT !.outcomes = Append(@, Raised),
                                    !.prompt = prompt_of(req[w].ctx, req[w].question)],
                     error_500("Gemini API error", req[w].sid))]
          /\ UNCHANGED <<store, fu_log>>
       \/ /\ config.GEMINI_API_KEY
          /\ \E answer_text \in AnswerTexts, outcome \in WriteOutcomes :
                LET path == path_of(config.CONTEXT_DIR, req[w].sid)
                    answer_steps == parse_answer_steps(answer_text)
                    session_context ==
                        append_follow_up(req[w].ctx, nreq, req[w].question,
                                         answer_steps)
                    r == [req[w] EXCEPT !.outcomes = Append(@, Returned(<<>>)),
                                        !.prompt = prompt_of(req[w].ctx, req[w].question),
                                        !.ctx = session_context,
                                        !.writes = @ + 1]
                IN  /\ store' = [store EXCEPT ![path] =
                            written(@, session_context, outcome)]
                    /\ fu_log' = [fu_log EXCEPT ![path] =
                            CASE outcome = "ok" ->
                                    [@ EXCEPT !.log = Append(@,
                                        [question |-> req[w].question,
                                         answer_steps |-> answer_steps])]
                              [] outcome = "open_fails" -> @
                              [] OTHER -> [ok |-> FALSE, log |-> <<>>]]
                    /\ req' = [req EXCEPT ![w] =
                            IF outcome = "ok"
                            THEN Done(r,
                                   [NoResp EXCEPT
                                      !.code = 200, !.status = "success",
                                      !.session_id = req[w].sid,
                                      !.answer_steps = answer_steps,
                                      !.task = req[w].ctx.task,
                                      !.step = req[w].ctx.step,
                                      !.previous_instruction =
                                          bulleted(Get(req[w].ctx.instruction.steps,
                                                       List(<<>>)))])
                            ELSE Done(r, error_500("OSError", req[w].sid))]
    /\ UNCHANGED <<nreq, config, ptext, psteps, ppc>>

\* The response leaves; the worker is free for the next request.
reply(w) ==
    /\ req[w].pc = "done"
    /\ req' = [req EXCEPT ![w] = Idle]
    /\ UNCHANGED <<store, nreq, config, fu_log, ptext, psteps, ppc>>

(***************************************************************************)
(* The parser harness: the follow-up parser applied to one answer text.    *)
(***************************************************************************)
parse_answer(text) ==
    /\ ppc = "ready"
    /\ ptext = text
    /\ psteps' = parse_answer_steps(text)
    /\ ppc' = "parsed"
    /\ UNCHANGED <<store, req, nreq, config, fu_log, ptext>>

(***************************************************************************)
(* Specifications.                                                         *)
(***************************************************************************)
Paths == Dirs \X Keys

InitPipeline ==
    /\ store = [p \in Paths |-> NoFile]
    /\ req = [w \in Workers |-> Idle]
    /\ nreq = 0
    /\ fu_log = [p \in Paths |-> [ok |-> FALSE, log |-> <<>>]]

Init ==
    /\ InitPipeline
    /\ config \in [CONTEXT_DIR : {"contexts"}, GEMINI_API_KEY : BOOLEAN]
    /\ ptext = <<>>
    /\ psteps = <<>>
    /\ ppc = "off"

\* What worker w may do next, max being the number of requests the core takes.
Step(w, max) ==
    \/ assist(w, max)
    \/ analyze_and_instruct(w)
    \/ save_context(w)
    \/ ask(w, max)
    \/ ask_answer(w)
    \/ reply(w)

\* Requests on the two workers, interleaved at every blocking call.
Next == \E w \in Workers : Step(w, MaxConcReqs)

Spec == Init /\ [][Next]_vars

\* One worker: each request runs to its response before the next is accepted.
NextSeq == Step("w1", MaxReqs)

SpecSeq == Init /\ [][NextSeq]_vars

\* VRContextWorkflow.run called directly, as the tests and the module's main
\* block call it: the image may be missing ("" stands for None and for the
\* empty string), the session id is any key.
Images == {"", "b64"}

\* llm.py 390-427: the initial state of one run, handed to the graph.
run(w, max) ==
    /\ req[w].pc = "idle"
    /\ nreq < max
    /\ \E image_base64 \in Images, session_id \in Keys :
          req' = [req EXCEPT ![w] =
                    [Idle EXCEPT !.kind = "assist", !.pc = "analyze",
                                 !.raw_sid = session_id, !.sid = session_id,
                                 !.task = <<"p">>,
                                 !.step = <<"4">>, !.gaze = "g",
                                 !.image = image_base64]]
    /\ nreq' = nreq + 1
    /\ UNCHANGED <<store, config, fu_log, ptext, psteps, ppc>>

NextRun ==
    \/ run("w1", MaxReqs)
    \/ analyze_and_instruct("w1")
    \/ save_context("w1")
    \/ reply("w1")

SpecRun == Init /\ [][NextRun]_vars

\* The service under every configured context directory (main.py 42:
\* CONTEXT_DIR comes from the environment), one request at a time.
MaxDirReqs == 2

InitDirs ==
    /\ InitPipeline
    /\ config \in [CONTEXT_DIR : Dirs, GEMINI_API_KEY : BOOLEAN]
    /\ ptext = <<>>
    /\ psteps = <<>>
    /\ ppc = "off"

NextDirs == Step("w1", MaxDirReqs)

SpecDirs == InitDirs /\ [][NextDirs]_vars

\* The parser on every answer text of the harness.
InitParse ==
    /\ store = <<>>
    /\ req = <<>>
    /\ nreq = 0
    /\ fu_log = <<>>
    /\ config = [CONTEXT_DIR |-> "contexts", GEMINI_API_KEY |-> TRUE]
    /\ ptext \in Texts
    /\ psteps = <<>>
    /\ ppc = "ready"

NextParse == parse_answer(ptext)

SpecParse == InitParse /\ [][NextParse]_vars

\* The follow-up route over context files that were put into the directory:
\* one file, of any content, under one path.
MaxStoredReqs == 2

\* A record as save_context writes it.
StoredRecord(session_id) ==
    [NoFile EXCEPT !.kind = "json", !.keys = AssistKeys, !.session_id = session_id,
                   !.timestamp = 0, !.task = <<"p">>, !.step = <<"4">>,
                   !.gaze_vector = "g", !.image_analysis = Str("scene"),
                   !.instruction = [steps |-> List(<<"Do it">>),
                                    target_id |-> Str("J1"),
                                    haptic_cue |-> Str("none")],
                   !.error = Null]

\* JSON that is not an object: an array of the given strings (a number or an
\* array of other things when there are none).
StoredValue(members) == [NoFile EXCEPT !.kind = "value", !.keys = members]

\* What the file of a session id may hold.
FilesAt(key) ==
    {NoFile, CorruptFile, StoredValue({}), StoredValue(required_fields)}
    \cup { StoredRecord(k) : k \in Keys }
    \cup { [StoredRecord(key) EXCEPT !.instruction.steps = Str("Do it")] }
    \cup { [StoredRecord(key) EXCEPT !.keys = @ \ {f}] : f \in required_fields }

InitStored ==
    /\ \E p \in Paths :
          \E f \in FilesAt(p[2]) :
              store = [q \in Paths |-> IF q = p THEN f ELSE NoFile]
    /\ req = [w \in Workers |-> Idle]
    /\ nreq = 0
    /\ fu_log = [p \in Paths |-> [ok |-> FALSE, log |-> <<>>]]
    /\ config \in [CONTEXT_DIR : {"contexts"}, GEMINI_API_KEY : BOOLEAN]
    /\ ptext = <<>>
    /\ psteps = <<>>
    /\ ppc = "off"

NextStored ==
    \/ ask("w1", MaxStoredReqs)
    \/ ask_answer("w1")
    \/ reply("w1")

SpecStored == InitStored /\ [][NextStored]_vars

\* Follow-up requests on both workers against one session that an assist
\* request has stored: the requests interleave at the inference call.
RaceSession == << "s" >>

InitRace ==
    /\ store = [q \in Paths |-> IF q = <<"contexts", RaceSession>>
                                 THEN StoredRecord(RaceSession) ELSE NoFile]
    /\ req = [w \in Workers |-> Idle]
    /\ nreq = 0
    /\ fu_log = [p \in Paths |-> [ok |-> p = <<"contexts", RaceSession>>, log |-> <<>>]]
    /\ config \in [CONTEXT_DIR : {"contexts"}, GEMINI_API_KEY : BOOLEAN]
    /\ ptext = <<>>
    /\ psteps = <<>>
    /\ ppc = "off"

NextRace ==
    \E w \in Workers :
        \/ ask(w, MaxConcReqs)
        \/ ask_answer(w)
        \/ reply(w)

SpecRace == InitRace /\ [][NextRace]_vars

\* An assist on one worker and a follow-up on the other, on a store that
\* holds the record of one session: the requests interleave at the
\* inference calls.  The assists that reach the workflow are those on the
\* stored session.
NextMixed ==
    \/ /\ assist("w1", MaxConcReqs)
       /\ req'["w1"].pc = "analyze" => req'["w1"].sid = RaceSession
    \/ analyze_and_instruct("w1")
    \/ save_context("w1")
    \/ reply("w1")
    \/ ask("w2", MaxConcReqs)
    \/ ask_answer("w2")
    \/ reply("w2")

SpecMixed == InitRace /\ [][NextMixed]_vars

\* The same two workers when every inference call returns or raises and every
\* file call returns: a handler thread that has a next blocking call to make
\* makes it (llm.py 58-71: analyze_and_instruct -> save_context -> END, then
\* the route answers; ask.py 153-199: invoke, then dump, then the response).
SpecMixedFair ==
    /\ SpecMixed
    /\ WF_vars(analyze_and_instruct("w1"))
    /\ WF_vars(save_context("w1"))
    /\ WF_vars(ask_answer("w2"))

\* An assist worker and a follow-up worker, with session ids that differ as
\* strings, one of them written with "./" in front, on a store that holds the
\* record of one session.
AliasSessionIds == { RaceSession, <<".", "/">> \o RaceSession }

NextAlias ==
    \/ assist_on("w1", MaxConcReqs, AliasSessionIds)
    \/ analyze_and_instruct("w1")
    \/ save_context("w1")
    \/ reply("w1")
    \/ ask_on("w2", MaxConcReqs, AliasSessionIds)
    \/ ask_answer("w2")
    \/ reply("w2")

SpecAlias == InitRace /\ [][NextAlias]_vars

\* load_session_context called up to MaxLoads times on a directory that holds
\* one file: psteps lists what each call returned.
MaxLoads == 2

\* A slip: the file is gone once it was read.
after_load_consuming(files, path) == [files EXCEPT ![path] = NoFile]

\* session.py 37-43: exists() and open(context_path, 'r') leave the files
\* as they are.
after_load(files, path) == files

\* session.py 10-57, called with directory dir and session id key.
load(dir, key) ==
    /\ ppc = "ready"
    /\ Len(psteps) < MaxLoads
    /\ LET file == store[<<dir, key>>]
           outcome == load_session_context(file)
       IN  psteps' = Append(psteps,
                        [dir |-> dir, key |-> key, outcome |-> outcome,
                         record |-> IF outcome = "ok" THEN file ELSE NoFile])
    /\ store' = after_load(store, <<dir, key>>)
    /\ UNCHANGED <<req, nreq, config, fu_log, ptext, ppc>>

InitLoad ==
    /\ \E p \in Paths :
          \E f \in FilesAt(p[2]) :
              store = [q \in Paths |-> IF q = p THEN f ELSE NoFile]
    /\ req = <<>>
    /\ nreq = 0
    /\ fu_log = <<>>
    /\ config = [CONTEXT_DIR |-> "contexts", GEMINI_API_KEY |-> TRUE]
    /\ ptext = <<>>
    /\ psteps = <<>>
    /\ ppc = "ready"

NextLoad == \E dir \in Dirs, key \in Keys : load(dir, key)

SpecLoad == InitLoad /\ [][NextLoad]_vars

(***************************************************************************)
(* The three-node workflow's generate_instruction node (workflow.py) on    *)
(* one model response.  ptext is the state's error at entry and the        *)
(* response, psteps the state the node returns.                            *)
(***************************************************************************)
\* A string given by its characters.
Chars(text) == [k |-> "str", s |-> "", l |-> text]

\* Short response texts have up to MaxChars characters; long ones run from
\* one character under the limit to MaxOver characters over it.
MaxChars == 2
MaxOver == 1

\* workflow.py 150: response.content[:200]
instruction_limit == 200

\* text[:n]
Prefix(text, n) == SubSeq(text, 1, IF Len(text) < n THEN Len(text) ELSE n)

\* Response contents that json.loads rejects.
InstructionTexts ==
    UNION { [1..n -> {"a", " "}] : n \in 0..MaxChars }
    \cup { [i \in 1..(instruction_limit - 1 + n) |-> "a"] : n \in 0..(MaxOver + 1) }

\* JSON objects the model may answer with: each of the three keys of the
\* prompt's format there or not, and with values of other types.
InstructionDocs ==
    [instruction_text : {Absent, Null, Str("Go")},
     target_id : {Absent, Null, Str("T")},
     haptic_cue : {Absent, Null, Other, Str("buzz")} \cup { Str(c) : c \in valid_cues }]

NoDoc == [instruction_text |-> Absent, target_id |-> Absent, haptic_cue |-> Absent]

\* What llm.invoke gives: it raises, or returns a content that is no JSON, a
\* JSON object, or another JSON value.
InstructionResponses ==
    { [kind |-> "raised", text |-> <<>>, doc |-> NoDoc],
      [kind |-> "value", text |-> <<>>, doc |-> NoDoc] }
    \cup { [kind |-> "text", text |-> t, doc |-> NoDoc] : t \in InstructionTexts }
    \cup { [kind |-> "object", text |-> <<>>, doc |-> d] : d \in InstructionDocs }

\* workflow.py 171-176: the except branch of the node.
instruction_failed(e) ==
    [instruction_text |-> Str("Error: " \o e), target_id |-> Str(""),
     haptic_cue |-> Str("none"), error |-> "Instruction generation failed: " \o e]

\* workflow.py 147-153: the result when json.loads raised JSONDecodeError.
instruction_fallback(content) ==
    [instruction_text |-> Chars(Prefix(content, instruction_limit)),
     target_id |-> Str(""), haptic_cue |-> Str("none")]

\* workflow.py 107-176: the state the node returns, error being state["error"]
\* at entry.
instruction_state(error, response) ==
    CASE error # "" ->
            [instruction_text |-> Str("Error occurred: " \o error),
             target_id |-> Str(""), haptic_cue |-> Str("none"), error |-> error]
      [] error = "" /\ response.kind = "raised" -> instruction_failed("API Error")
      [] error = "" /\ response.kind = "value" ->     \* result.get
            instruction_failed("AttributeError")
      [] error = "" /\ response.kind = "object"
            /\ response.doc.instruction_text.k = "absent" ->  \* result["instruction_text"]
            instruction_failed("KeyError")
      [] OTHER ->
            LET result == IF response.kind = "text"
                          THEN instruction_fallback(response.text)
                          ELSE response.doc
            IN  [instruction_text |-> result.instruction_text,
                 target_id |-> Get(result.target_id, Str("")),
                 haptic_cue |-> coerce_haptic_cue(result.haptic_cue),
                 error |-> ""]

generate_instruction(error, response) ==
    /\ ppc = "ready"
    /\ ptext = [error |-> error, response |-> response]
    /\ psteps' = instruction_state(error, response)
    /\ ppc' = "parsed"
    /\ UNCHANGED <<store, req, nreq, config, fu_log, ptext>>

InitInstruction ==
    /\ store = <<>>
    /\ req = <<>>
    /\ nreq = 0
    /\ fu_log = <<>>
    /\ config = [CONTEXT_DIR |-> "contexts", GEMINI_API_KEY |-> TRUE]
    /\ ptext \in [error : {"", "Image analysis failed: API Error"},
                  response : InstructionResponses]
    /\ psteps = <<>>
    /\ ppc = "ready"

NextInstruction == generate_instruction(ptext.error, ptext.response)

SpecInstruction == InitInstruction /\ [][NextInstruction]_vars

\* The response parser of /assist on every response text of up to MaxTokens
\* pieces: ptext is the response content, psteps the state it is parsed into.
MaxTokens == 3

Tokens == {Fence, Prose} \cup { Json(d) : d \in 1..Len(AssistDocs) }

ParseContents == UNION { [1..n -> Tokens] : n \in 0..MaxTokens }

InitAssistParse ==
    /\ store = <<>>
    /\ req = <<>>
    /\ nreq = 0
    /\ fu_log = <<>>
    /\ config = [CONTEXT_DIR |-> "contexts", GEMINI_API_KEY |-> TRUE]
    /\ ptext \in ParseContents
    /\ psteps = <<>>
    /\ ppc = "ready"

\* llm.py 289-374 applied to one response content.
parse_response(response_content) ==
    /\ ppc = "ready"
    /\ ptext = response_content
    /\ psteps' = state_after_response(response_content)
    /\ ppc' = "parsed"
    /\ UNCHANGED <<store, req, nreq, config, fu_log, ptext>>

NextAssistParse == parse_response(ptext)

SpecAssistParse == InitAssistParse /\ [][NextAssistParse]_vars


(***************************************************************************)
(* Properties of the follow-up parser (SpecParse).                         *)
(***************************************************************************)
\* The item texts a numbered list is built from.
Items == { <<"a">>, <<"b">>, <<"a", " ", "b">> }
ItemSeqs == UNION { [1..n -> Items] : n \in 1..2 }

\* "1. A" and "1. A\n2. B"
ListText(items) ==
    <<"1", ".", " ">> \o items[1]
    \o (IF Len(items) = 2 THEN <<NL, "2", ".", " ">> \o items[2] ELSE <<>>)

\* The text holds a line break, then optional whitespace, digits, a period and
\* whitespace.
HasMarker(t) ==
    \E i \in 1..Len(t), j \in 1..Len(t), k \in 1..Len(t) :
        /\ i < j /\ j < k /\ k < Len(t)
        /\ t[i] = NL
        /\ \A x \in (i + 1)..(j - 1) : IsSpace(t[x])
        /\ \A x \in j..(k - 1) : IsDigit(t[x])
        /\ t[k] = "."
        /\ IsSpace(t[k + 1])

\* C9: for every numbered-list text "1. A\n2. B ..." that starts with item 1,
\* the parser returns exactly the item texts A, B, ... in order, the marker of
\* every item removed, the first included.
C9_NumberedListItems ==
    ppc = "parsed" =>
        \A items \in ItemSeqs : ptext = ListText(items) => psteps = items

\* C10: a text without a numbered-list marker is returned as one step, the
\* stripped text; the result is never empty.
C10_NoMarkerSingleStep ==
    (ppc = "parsed" /\ ~HasMarker(ptext)) => psteps = << Strip(ptext) >>

\* C10 witness: a whitespace-only answer went through the parser.
C10_Witness ==
    /\ ppc = "parsed"
    /\ ptext # <<>>
    /\ Strip(ptext) = <<>>
    /\ ~HasMarker(ptext)
    /\ psteps = << <<>> >>


(***************************************************************************)
(* Properties of the pipelines (SpecSeq: one request after another).       *)
(***************************************************************************)
IsPrefix(a, b) == Len(a) <= Len(b) /\ SubSeq(b, 1, Len(a)) = a

Last(q) == q[Len(q)]

\* The request of worker w went through the core of its route.
AssistRan(w) ==
    /\ req[w].kind = "assist" /\ req[w].pc \in {"save", "done"}
    /\ req[w].outcomes # <<>>
AssistDone(w) == req[w].kind = "assist" /\ req[w].pc = "done" /\ req[w].outcomes # <<>>
AskAnswered(w) ==
    /\ req[w].kind = "ask" /\ req[w].pc = "done"
    /\ req[w].outcomes # <<>> /\ ~Last(req[w].outcomes).raised

AnalysisErrors ==
    {"Analysis and instruction failed: API Error",
     "Analysis and instruction failed: TypeError"}

ValidCue(v) == v.k = "str" /\ v.s \in {"guide_to_target", "success_pulse", "none"}

NonEmptyList(v) == v.k = "list" /\ Len(v.l) > 0

\* C1: whenever a stored record is followed by a stored record under the same
\* key, the follow_up_qa of the first is a prefix of the follow_up_qa of the
\* second: entries are appended, never removed or reordered.
C1_FollowUpsAppendOnly ==
    [][\A p \in Paths :
        (store[p].kind = "json" /\ store'[p].kind = "json")
            => IsPrefix(QA(store[p]), QA(store'[p]))]_vars

\* C2: after n follow-ups answered one after another on a session an assist
\* created, with no other write to it, follow_up_qa has n entries and the i-th
\* carries the question and the answer steps of the i-th call.
C2_FollowUpsInCallOrder ==
    \A p \in Paths :
        fu_log[p].ok =>
            /\ store[p].kind = "json"
            /\ Len(QA(store[p])) = Len(fu_log[p].log)
            /\ \A i \in 1..Len(fu_log[p].log) :
                /\ QA(store[p])[i].question = fu_log[p].log[i].question
                /\ QA(store[p])[i].answer_steps = fu_log[p].log[i].answer_steps

\* C2 witness: two follow-ups with different questions were answered on one
\* session.
C2_Witness ==
    \E p \in Paths :
        /\ fu_log[p].ok
        /\ Len(fu_log[p].log) = 2
        /\ fu_log[p].log[1].question # fu_log[p].log[2].question
        /\ Len(QA(store[p])) = 2

C4_RetryOnce ==
    \A w \in Workers :
        req[w].kind = "assist" =>
            /\ Len(req[w].outcomes) <= 2
            /\ Len(req[w].outcomes) = 2 => req[w].outcomes[1].raised
            /\ AssistRan(w) =>
                /\ req[w].outcomes[1].raised => Len(req[w].outcomes) = 2
                /\ ~Last(req[w].outcomes).raised =>
                    LET parsed == state_after_response(Last(req[w].outcomes).content)
                    IN  /\ req[w].st.instruction_text = parsed.instruction_text
                        /\ req[w].st.target_id = parsed.target_id
                        /\ req[w].st.haptic_cue = parsed.haptic_cue
                        /\ req[w].resp.code = 200 =>
                              req[w].resp = assist_response(parsed, req[w].sid)

\* C4 witness: the first attempt raised, the second returned and was answered.
C4_Witness ==
    \E w \in Workers :
        /\ AssistDone(w)
        /\ Len(req[w].outcomes) = 2
        /\ req[w].outcomes[1].raised
        /\ ~req[w].outcomes[2].raised
        /\ req[w].resp.code = 200

\* Both inference attempts of the assist request of worker w raised.
BothAttemptsRaised(w) ==
    /\ AssistRan(w)
    /\ Len(req[w].outcomes) = 2
    /\ req[w].outcomes[1].raised
    /\ req[w].outcomes[2].raised

\* C5 as claimed: when both inference attempts raised, the state the pipeline
\* returns carries an error, empty instruction steps, target_id "" and
\* haptic_cue "none".
C5_DegradedWithEmptySteps ==
    \A w \in Workers :
        BothAttemptsRaised(w) =>
            /\ req[w].st.error # ""
            /\ req[w].st.instruction_text \in {List(<<>>), Str("")}
            /\ req[w].st.target_id = Str("")
            /\ req[w].st.haptic_cue = Str("none")

\* C5 amended: when both inference attempts raised, nothing propagates: the
\* state the pipeline returns carries the error, the fixed instruction text
\* "System error. Please try again.", target_id "" and haptic_cue "none";
\* nothing is written, and the route answers 500 LLM_ERROR with that error.
C5_DegradedWithPlaceholder ==
    \A w \in Workers :
        BothAttemptsRaised(w) =>
            /\ req[w].st.error = "Analysis and instruction failed: API Error"
            /\ req[w].st.instruction_text = Str("System error. Please try again.")
            /\ req[w].st.target_id = Str("")
            /\ req[w].st.haptic_cue = Str("none")
            /\ req[w].writes = 0
            /\ req[w].pc = "done" =>
                /\ req[w].resp.code = 500
                /\ req[w].resp.status = "error"
                /\ req[w].resp.error_code = "LLM_ERROR"
                /\ req[w].resp.error = req[w].st.error
                /\ req[w].resp.session_id = req[w].sid
                /\ req[w].resp.instruction_steps = Absent

\* C5 witness: both attempts raised and the route has built its answer.
C5_Witness ==
    \E w \in Workers :
        /\ BothAttemptsRaised(w)
        /\ req[w].pc = "done"
        /\ req[w].resp.code = 500

\* C6: a well-formed, authenticated follow-up for a session id with no stored
\* record ends at once with 404 NOT_FOUND, without an inference call, without
\* a write, and with every record as it was.
C6_UnknownSessionNotFound ==
    [][\A w \in Workers :
        ( /\ req[w].pc = "idle"
          /\ req'[w].kind = "ask"
          /\ req'[w].resp.code \notin {400, 401, 413}
          /\ store[<<config.CONTEXT_DIR, req'[w].sid>>].kind = "none" )
        => /\ req'[w].pc = "done"
           /\ req'[w].resp.code = 404
           /\ req'[w].resp.error_code = "NOT_FOUND"
           /\ req'[w].outcomes = <<>>
           /\ req'[w].writes = 0
           /\ store' = store]_vars

\* C6 witness: a follow-up was answered 404 for an id without a record while
\* another session has one.
C6_Witness ==
    \E w \in Workers :
        /\ req[w].kind = "ask" /\ req[w].pc = "done"
        /\ req[w].resp.code = 404
        /\ req[w].outcomes = <<>>
        /\ store[<<config.CONTEXT_DIR, req[w].sid>>].kind = "none"
        /\ \E p \in Paths : store[p].kind = "json"

\* The haptic cue a parsed model answer carries, before validation.
RawCue(result) ==
    IF result.instruction.k \in {"dict", "absent"}
    THEN result.instruction.haptic_cue
    ELSE result.haptic_cue

\* C7: the haptic cue of the state the assist pipeline ends with, of every
\* success response and of every stored record is one of guide_to_target,
\* success_pulse, none; a cue of the model outside these ends as none.
C7_HapticCueEnumerated ==
    /\ \A w \in Workers :
        /\ AssistRan(w) => ValidCue(req[w].st.haptic_cue)
        /\ (AssistRan(w) /\ ~Last(req[w].outcomes).raised
                /\ ~ValidCue(RawCue(parse_result(Last(req[w].outcomes).content))))
              => req[w].st.haptic_cue = Str("none")
        /\ (req[w].kind = "assist" /\ req[w].resp.code = 200)
              => ValidCue(req[w].resp.haptic_cue)
    /\ \A p \in Paths :
        store[p].kind = "json" => ValidCue(store[p].instruction.haptic_cue)

\* C7 witness: a model answer with a cue outside the enumeration was answered
\* and stored with the cue none.
C7_Witness ==
    \E w \in Workers :
        /\ AssistDone(w)
        /\ req[w].resp.code = 200
        /\ RawCue(parse_result(Last(req[w].outcomes).content)) = Str("invalid_cue")
        /\ req[w].resp.haptic_cue = Str("none")
        /\ store[<<"contexts", req[w].sid>>].kind = "json"
        /\ store[<<"contexts", req[w].sid>>].instruction.haptic_cue = Str("none")

\* C8: the instruction steps of every stored record and of every success
\* response of assist are a non-empty list; a model answer whose steps are
\* missing or empty and that carries a text ends as the one-element list of
\* that text.
C8_StepsNonEmpty ==
    /\ \A p \in Paths :
        store[p].kind = "json" => NonEmptyList(store[p].instruction.steps)
    /\ \A w \in Workers :
        (req[w].kind = "assist" /\ req[w].resp.code = 200) =>
            /\ NonEmptyList(req[w].resp.instruction_steps)
            /\ LET result == parse_result(Last(req[w].outcomes).content)
               IN  ( /\ result.instruction.k = "dict"
                     /\ ~NonEmptyList(result.instruction.steps)
                     /\ result.instruction.text.k = "str" )
                   => req[w].resp.instruction_steps =
                          List(<< result.instruction.text.s >>)

\* C8 witness: a model answer with an empty steps list and a text was answered
\* and stored with the text as its only step.
C8_Witness ==
    \E w \in Workers :
        /\ AssistDone(w)
        /\ req[w].resp.code = 200
        /\ parse_result(Last(req[w].outcomes).content).instruction.steps = List(<<>>)
        /\ req[w].resp.instruction_steps = List(<< "Do it" >>)
        /\ store[<<"contexts", req[w].sid>>].kind = "json"
        /\ store[<<"contexts", req[w].sid>>].instruction.steps = List(<< "Do it" >>)

(***************************************************************************)
(* Properties of the response parser of /assist (SpecAssistParse).         *)
(***************************************************************************)
ObjectDocs == { d \in 1..Len(AssistDocs) : AssistDocs[d].top = "object" }

\* C11: for every JSON object J, the response that is J between code fences
\* is parsed into the same image_analysis, instruction steps, target_id and
\* haptic_cue as the response that is J alone.
C11_FenceTransparent ==
    ppc = "parsed" =>
        \A d \in ObjectDocs :
            ptext = << Fence, Json(d), Fence >> =>
                LET direct == state_after_response(<< Json(d) >>)
                IN  /\ psteps.image_analysis = direct.image_analysis
                    /\ psteps.instruction_text = direct.instruction_text
                    /\ psteps.target_id = direct.target_id
                    /\ psteps.haptic_cue = direct.haptic_cue
                    /\ psteps.error = direct.error

\* C11 witness: the fenced schema document was parsed into its own steps.
C11_Witness ==
    /\ ppc = "parsed"
    /\ ptext = << Fence, Json(1), Fence >>
    /\ psteps.instruction_text = AssistDocs[1].instruction.steps
    /\ psteps.target_id = Str("J1")
    /\ psteps.error = ""

(***************************************************************************)
(* Properties of the assist pipeline on a structured answer (SpecSeq).     *)
(***************************************************************************)
\* The parsed answer has instruction.steps a non-empty list, a target_id and
\* one of the three haptic cues.
StructuredAnswer(result) ==
    /\ result.top = "object"
    /\ result.instruction.k = "dict"
    /\ NonEmptyList(result.instruction.steps)
    /\ result.instruction.target_id.k = "str"
    /\ ValidCue(result.instruction.haptic_cue)

\* The assist request of worker w got a response and its write, if it made
\* one, did not fail.
AnsweredWithoutWriteFailure(w) ==
    /\ AssistDone(w)
    /\ ~Last(req[w].outcomes).raised
    /\ req[w].st.error # "Context save failed: OSError"

\* C12: an assist request whose model answer is a JSON object with a
\* non-empty instruction.steps S, a target_id T and a valid haptic_cue H is
\* answered with instruction_steps S, target_id T and haptic_cue H, and the
\* record stored for its session has instruction.steps S, the task and step
\* of the request and the session id of the response.
C12_StructuredAnswerServed ==
    \A w \in Workers :
        LET result == parse_result(Last(req[w].outcomes).content)
            record == store[<<"contexts", req[w].sid>>]
        IN  (AnsweredWithoutWriteFailure(w) /\ JsonLoadsOk(extract_json(Last(req[w].outcomes).content))
                /\ StructuredAnswer(result)) =>
                /\ req[w].resp.code = 200
                /\ req[w].resp.instruction_steps = result.instruction.steps
                /\ req[w].resp.target_id = result.instruction.target_id
                /\ req[w].resp.haptic_cue = result.instruction.haptic_cue
                /\ record.kind = "json"
                /\ record.instruction.steps = result.instruction.steps
                /\ record.task = req[w].task
                /\ record.step = req[w].step
                /\ record.session_id = req[w].resp.session_id

(***************************************************************************)
(* Properties of saving and loading a context file (SpecSeq).              *)
(***************************************************************************)
\* The fields of a record the round trip is about.
RoundTripFields(record) ==
    [task |-> record.task, step |-> record.step,
     steps |-> record.instruction.steps, follow_up_qa |-> QA(record)]

C14_LoadChecksSessionId ==
    \A w \in Workers :
        (req[w].kind = "ask" /\ (req[w].pc = "loaded" \/ req[w].resp.code = 200))
            => req[w].ctx.session_id = req[w].sid

\* The file is there but is not JSON, or the test "field in context_data"
\* fails for one of the required fields.
IsCorrupt(file) ==
    \/ file.kind = "corrupt"
    \/ file.kind \in {"json", "value"} /\ ~(required_fields \subseteq file.keys)

C17_FollowUpSingleAttempt ==
    [][\A w \in Workers :
        (req[w].kind = "ask" /\ req[w].pc = "loaded") =>
            /\ Len(req'[w].outcomes) <= 1
            /\ config.GEMINI_API_KEY => Len(req'[w].outcomes) = 1
            /\ req'[w].pc = "done"
            /\ (req'[w].outcomes # <<>> /\ Last(req'[w].outcomes).raised) =>
                  /\ req'[w].resp.code = 500
                  /\ req'[w].resp.status = "error"
                  /\ req'[w].resp.error_code = "LLM_ERROR"
                  /\ req'[w].resp.error = "Gemini API error"
                  /\ req'[w].resp.session_id = req[w].sid
                  /\ req'[w].writes = 0
                  /\ store' = store]_vars

\* C17 witness: the model call of a follow-up raised on a session that holds
\* an earlier follow-up.
C17_Witness ==
    \E w \in Workers :
        /\ req[w].kind = "ask" /\ req[w].pc = "done"
        /\ req[w].outcomes = << Raised >>
        /\ req[w].resp.code = 500
        /\ Len(QA(store[<<config.CONTEXT_DIR, req[w].sid>>])) = 1

\* C18: after a successful follow-up the file of the session holds the record
\* that was loaded with one entry {timestamp, question, answer_steps} added at
\* the end of follow_up_qa (a one-element list when there was none); every
\* other field and every earlier entry is as loaded, and no other file
\* changed.
C18_FollowUpReadModifyWrite ==
    [][\A w \in Workers :
        (req[w].kind = "ask" /\ req[w].pc = "loaded" /\ req'[w].resp.code = 200) =>
            LET path == <<config.CONTEXT_DIR, req[w].sid>>
                loaded == req[w].ctx
                after == store'[path]
            IN  /\ after.kind = "json"
                /\ after.keys = loaded.keys \cup {"follow_up_qa"}
                /\ after.session_id = loaded.session_id
                /\ after.timestamp = loaded.timestamp
                /\ after.task = loaded.task
                /\ after.step = loaded.step
                /\ after.gaze_vector = loaded.gaze_vector
                /\ after.image_analysis = loaded.image_analysis
                /\ after.instruction = loaded.instruction
                /\ after.error = loaded.error
                /\ Len(QA(after)) = Len(QA(loaded)) + 1
                /\ SubSeq(QA(after), 1, Len(QA(loaded))) = QA(loaded)
                /\ Last(QA(after)).question = req[w].question
                /\ Last(QA(after)).answer_steps = req'[w].resp.answer_steps
                /\ DOMAIN Last(QA(after)) = {"timestamp", "question", "answer_steps"}
                /\ \A q \in Paths \ {path} : store'[q] = store[q]]_vars

\* C18 witness: a follow-up was answered on a record that had no follow_up_qa
\* key, and the file now holds one entry.
C18_Witness ==
    \E w \in Workers :
        /\ req[w].kind = "ask" /\ req[w].pc = "done"
        /\ req[w].resp.code = 200
        /\ store[<<config.CONTEXT_DIR, req[w].sid>>] = req[w].ctx
        /\ "follow_up_qa" \in req[w].ctx.keys
        /\ Len(QA(req[w].ctx)) = 1
        /\ req[w].ctx.follow_up_qa[1].question = req[w].question

(***************************************************************************)
(* Properties of the assist pipeline on any answer (SpecSeq).              *)
(***************************************************************************)
\* The response content is the text of one JSON object.
ParsesToObject(response_content) ==
    LET content == extract_json(response_content)
    IN  JsonLoadsOk(content) /\ AssistDocs[content[1].d].top = "object"

\* C19: whatever response the model returned (a JSON object of any shape,
\* JSON of another type, text that is not JSON), the assist request ends with
\* no error in its state, a success response and a stored record; a response
\* that could not be parsed gives target_id "" and haptic_cue "none"; the
\* state is a function of the response.
C19_ParserNeverFails ==
    \A w \in Workers :
        AnsweredWithoutWriteFailure(w) =>
            LET content == Last(req[w].outcomes).content
            IN  /\ req[w].st.error = ""
                /\ req[w].resp.code = 200
                /\ store[<<"contexts", req[w].sid>>].kind = "json"
                /\ store[<<"contexts", req[w].sid>>].session_id = req[w].sid
                /\ ~ParsesToObject(content) =>
                      /\ req[w].st.target_id = Str("")
                      /\ req[w].st.haptic_cue = Str("none")
                /\ req[w].st = state_after_response(content)

(***************************************************************************)
(* Properties of the response parser on the flat layout (SpecAssistParse). *)
(***************************************************************************)
\* The document has a top-level instruction_text and no instruction key.
FlatLayout(result) ==
    /\ result.top = "object"
    /\ result.instruction.k = "absent"
    /\ result.instruction_text.k = "str"

\* C20: a JSON answer in the flat layout is used directly: the steps are
\* [instruction_text], target_id is the given one ("" when absent) and
\* haptic_cue the given valid one ("none" when absent).
C20_FlatLayoutUsed ==
    ppc = "parsed" =>
        \A d \in ObjectDocs :
            (ptext = << Json(d) >> /\ FlatLayout(AssistDocs[d])) =>
                /\ psteps.instruction_text =
                      List(<< AssistDocs[d].instruction_text.s >>)
                /\ psteps.target_id = Get(AssistDocs[d].target_id, Str(""))
                /\ psteps.haptic_cue =
                      coerce_haptic_cue(Get(AssistDocs[d].haptic_cue, Str("none")))

(***************************************************************************)
(* Properties of the response parser on wrapped and on free text           *)
(* (SpecAssistParse).                                                      *)
(***************************************************************************)
\* The document matches the schema of the prompt.
SchemaValid(result) ==
    /\ StructuredAnswer(result)
    /\ result.image_analysis.k = "str"

\* The content is the JSON document d with prose before and/or after it,
\* with or without code fences.
ProseAround(content, d) ==
    /\ \E i \in 1..Len(content) :
          /\ content[i] = Json(d)
          /\ \A j \in 1..Len(content) : j # i => content[j] \in {Prose, Fence}
    /\ \E i \in 1..Len(content) : content[i] = Prose

\* C21: a schema-valid JSON object with prose around it, fenced or not, is
\* parsed into the same fields as the bare object.
C21_ProseAroundJson ==
    ppc = "parsed" =>
        \A d \in ObjectDocs :
            (SchemaValid(AssistDocs[d]) /\ ProseAround(ptext, d)) =>
                LET direct == state_after_response(<< Json(d) >>)
                IN  /\ psteps.image_analysis = direct.image_analysis
                    /\ psteps.instruction_text = direct.instruction_text
                    /\ psteps.target_id = direct.target_id
                    /\ psteps.haptic_cue = direct.haptic_cue

\* The text the prose piece of a response stands for: one sentence, no
\* numbered items.
ProseText == "Turn the knob"

\* C22: a response that is free text (no JSON in it) gives instruction steps
\* taken from the text: for a text without numbered items, the text itself
\* as the only step.
C22_FreeTextBecomesSteps ==
    (ppc = "parsed" /\ ptext = << Prose >>) =>
        psteps.instruction_text = List(<< ProseText >>)

\* The step of worker w is a write attempt on its context file that did not
\* put the intended record there: the record of save_context for an assist,
\* the loaded context with the new entry for a follow-up.
WriteFailed(w) ==
    /\ req'[w].writes = req[w].writes + 1
    /\ \/ /\ req[w].pc = "save"
          /\ store'[<<"contexts", req[w].sid>>] # context_data(req[w], nreq)
       \/ /\ req[w].pc = "loaded"
          /\ store'[<<config.CONTEXT_DIR, req[w].sid>>] # req'[w].ctx

\* C23: a failed write of the context file, in assist or in a follow-up,
\* ends the request with an error response (500), after that one write
\* attempt and with no success payload.
C23_WriteFailureSurfaced ==
    [][\A w \in Workers :
          WriteFailed(w) =>
              /\ req'[w].pc = "done"
              /\ req'[w].writes = 1
              /\ req'[w].resp.code = 500
              /\ req'[w].resp.status = "error"
              /\ req'[w].resp.error_code = "LLM_ERROR"]_vars

\* Both kinds of request have ended on a failed write: the assist's file
\* holds no record, the follow-up's file still holds the record it loaded.
C23_Witness ==
    /\ req["w1"].pc = "done"
    /\ req["w1"].kind = "ask"
    /\ req["w1"].writes = 1
    /\ req["w1"].resp.code = 500
    /\ store[<<config.CONTEXT_DIR, req["w1"].sid>>] # req["w1"].ctx
    /\ store[<<config.CONTEXT_DIR, req["w1"].sid>>].kind = "json"

\* The two shapes a response has: the success payload, or the error payload
\* with its code and its text.
SuccessPayload(resp) == resp.code = 200 /\ resp.status = "success"
ErrorPayload(resp) ==
    /\ resp.code \in {400, 401, 404, 413, 500}
    /\ resp.status = "error"
    /\ resp.error_code # ""
    /\ resp.error # ""

\* C24: every assist and follow-up request ends with exactly one well-formed
\* response: a request under way can always go on, the response is set in the
\* step that ends the request and is left alone until it is sent, it is a
\* success payload or an error payload with status, error_code and text, and
\* a workflow state that carries an error is answered with the error payload.
C24_OneWellFormedResponse ==
    [][\A w \in Workers :
          /\ req[w].pc \in {"analyze", "save", "loaded"} =>
                ENABLED (analyze_and_instruct(w) \/ save_context(w) \/ ask_answer(w))
          /\ req'[w].pc # "done" => req'[w].resp = NoResp
          /\ req'[w].pc = "done" =>
                /\ SuccessPayload(req'[w].resp) \/ ErrorPayload(req'[w].resp)
                /\ req[w].pc = "done" => req'[w] = req[w]
                /\ (req'[w].kind = "assist" /\ req'[w].st.error # "") =>
                        ErrorPayload(req'[w].resp)]_vars

\* An assist whose workflow state carries an error has its response.
C24_Witness ==
    /\ req["w1"].pc = "done"
    /\ req["w1"].kind = "assist"
    /\ req["w1"].st.error # ""
    /\ req["w1"].outcomes # <<>>
    /\ ErrorPayload(req["w1"].resp)

\* The history a finished follow-up had loaded: its context without the entry
\* it added.
LoadedQA(w) == SubSeq(QA(req[w].ctx), 1, Len(QA(req[w].ctx)) - 1)

\* Both workers hold a successful follow-up on one session, and each had
\* loaded the record before the other wrote.
Raced(w, v) ==
    /\ w # v
    /\ AskAnswered(w) /\ AskAnswered(v)
    /\ req[w].resp.code = 200 /\ req[v].resp.code = 200
    /\ req[w].sid = req[v].sid
    /\ LoadedQA(w) = LoadedQA(v)

\* C25: two follow-ups on one session that both loaded before either wrote
\* both answer 200, and the file then holds the whole context of one of them,
\* with one new entry, never both: the other answer is lost.
C25_LastWriteWins ==
    \A w, v \in Workers :
        Raced(w, v) =>
            LET file == store[<<config.CONTEXT_DIR, req[w].sid>>]
            IN  /\ file \in {req[w].ctx, req[v].ctx}
                /\ Len(QA(file)) = Len(LoadedQA(w)) + 1

\* The race with two different questions: the file holds the second writer's
\* entry and not the first's.
C25_Witness ==
    /\ Raced("w1", "w2")
    /\ req["w1"].question # req["w2"].question
    /\ store[<<config.CONTEXT_DIR, req["w1"].sid>>] = req["w2"].ctx
    /\ \A i \in 1..Len(QA(store[<<config.CONTEXT_DIR, req["w1"].sid>>])) :
          QA(store[<<config.CONTEXT_DIR, req["w1"].sid>>])[i].question # req["w1"].question

\* C26: an assist request that came without a session_id runs under a
\* generated, non-empty id, one that came with an id runs under that id
\* sanitized; the id the workflow was given is the id of the response, and
\* after a successful save the key of the file and the session_id in it.
C26_OneSessionId ==
    \A w \in Workers :
        (req[w].kind = "assist" /\ (req[w].pc \in {"analyze", "save"} \/ AssistDone(w))) =>
            /\ req[w].raw_sid = <<>> => (req[w].sid \in Uuids /\ req[w].sid # <<>>)
            /\ req[w].raw_sid # <<>> => req[w].sid = sanitize_string(req[w].raw_sid)
            /\ AssistDone(w) => req[w].resp.session_id = req[w].sid
            /\ (AssistDone(w) /\ req[w].resp.code = 200) =>
                    /\ store[<<"contexts", req[w].sid>>].kind = "json"
                    /\ store[<<"contexts", req[w].sid>>].session_id = req[w].sid

\* An assist that came with a session_id ended 200 under the caller's id,
\* after an earlier one had been given a generated id.
C26_Witness ==
    /\ AssistDone("w1")
    /\ req["w1"].resp.code = 200
    /\ req["w1"].raw_sid # <<>>
    /\ req["w1"].sid = sanitize_string(req["w1"].raw_sid)
    /\ req["w1"].sid # <<>>
    /\ \E u \in Uuids : store[<<"contexts", u>>].kind = "json"

\* The steps of a stored instruction as lines "- <step>", a single string
\* counting as one step.
BulletedBlock(steps) ==
    IF steps.k = "str" THEN << << "- ", steps.s >> >>
    ELSE [i \in 1..Len(steps.l) |-> << "- ", steps.l[i] >>]

\* C27: a follow-up answered 200 carries the session id of the request, the
\* parsed answer steps (not empty, the ones appended to the record), the task
\* and step of the stored record and its instruction steps as a bulleted
\* block; the prompt that was sent embeds the stored task and that block.
C27_FollowUpResponse ==
    \A w \in Workers :
        (AskAnswered(w) /\ req[w].resp.code = 200) =>
            LET record == store[<<config.CONTEXT_DIR, req[w].sid>>]
                block == BulletedBlock(record.instruction.steps)
            IN  /\ req[w].resp.session_id = req[w].sid
                /\ req[w].resp.answer_steps # <<>>
                /\ req[w].resp.answer_steps = Last(QA(record)).answer_steps
                /\ req[w].resp.task = record.task
                /\ req[w].resp.step = record.step
                /\ req[w].resp.previous_instruction = block
                /\ req[w].prompt.task = record.task
                /\ req[w].prompt.previous_instruction = block

\* A follow-up on a record whose instruction.steps is one string was answered.
C27_Witness ==
    /\ AskAnswered("w1")
    /\ req["w1"].resp.code = 200
    /\ store[<<config.CONTEXT_DIR, req["w1"].sid>>].instruction.steps = Str("Do it")
    /\ req["w1"].resp.previous_instruction = << << "- ", "Do it" >> >>

\* C28: a request stopped over its input leaves no trace and is answered 401
\* for a missing or wrong token, 400 or 413 for missing fields, an invalid
\* image, gaze vector or audio, or a failed transcription: no inference
\* attempt, no file read into the request, no write, the store as it was.
C28_RejectedWithoutEffect ==
    [][\A w \in Workers :
          (req[w].pc = "idle" /\ req'[w].rejected # "") =>
              /\ store' = store
              /\ req'[w].outcomes = <<>>
              /\ req'[w].writes = 0
              /\ req'[w].ctx = NoFile
              /\ req'[w].rejected = "auth" =>
                    (req'[w].resp.code = 401 /\ req'[w].resp.error_code = "AUTH_FAILED")
              /\ req'[w].rejected # "auth" => req'[w].resp.code \in {400, 413}]_vars

C30_InstructionNode ==
    (ppc = "parsed" /\ ptext.error = "") =>
        LET response == ptext.response
        IN  /\ response.kind = "text" =>
                  /\ psteps.instruction_text.l = Prefix(response.text, instruction_limit)
                  /\ Len(psteps.instruction_text.l) <= instruction_limit
                  /\ psteps.target_id = Str("")
                  /\ psteps.haptic_cue = Str("none")
                  /\ psteps.error = ""
            /\ (response.kind = "object"
                  /\ response.doc.haptic_cue.k # "absent"
                  /\ ~(response.doc.haptic_cue.k = "str"
                        /\ response.doc.haptic_cue.s \in valid_cues)) =>
                  /\ psteps.haptic_cue = Str("none")
                  /\ psteps.instruction_text = response.doc.instruction_text
                  /\ response.doc.target_id.k # "absent" =>
                        psteps.target_id = response.doc.target_id

\* C31: the persist stage comes after the analyze/instruct stage, and with an
\* error in the state (no image, inference failed after the retry, exception
\* while parsing) it leaves the state and every file as they are; a file
\* changes only in a persist stage whose state has no error.
C31_PersistOnlyWithoutError ==
    [][\A w \in Workers :
          /\ req'[w].pc = "save" =>
                (req[w].pc = "analyze" /\ (req'[w].outcomes # <<>> \/ req[w].image = ""))
          /\ (req[w].pc = "save" /\ req[w].st.error # "") =>
                /\ store' = store
                /\ req'[w].st = req[w].st
                /\ req'[w].writes = 0
                /\ req'[w].pc = "done"
          /\ (req[w].pc = "save" /\ store' # store) => req[w].st.error = ""
          /\ (req[w].pc # "save" /\ req'[w] # req[w]) => store' = store]_vars

\* A run without an image on a session that has a record has ended: nothing
\* was written and the record is the one an earlier run stored.
C31_Witness ==
    /\ req["w1"].pc = "done"
    /\ req["w1"].image = ""
    /\ req["w1"].st.error = "No image data provided"
    /\ req["w1"].writes = 0
    /\ store[<<"contexts", req["w1"].sid>>].kind = "json"
    /\ store[<<"contexts", req["w1"].sid>>].timestamp < nreq

\* C32: under every configured context directory, a follow-up on a session
\* whose record an assist has stored (and nothing removed) is not answered
\* "session not found".
C32_FollowUpFindsAssistRecord ==
    \A w \in Workers :
        (/\ req[w].kind = "ask"
         /\ req[w].pc = "done"
         /\ req[w].rejected = ""
         /\ store[<<"contexts", req[w].sid>>].kind = "json") =>
            req[w].resp.code # 404

\* C33: from an empty store on, whatever the pipelines left under a path is
\* a record that has the five fields load asks for and, as session_id, the key
\* of its file; loading it does not fail as corrupt.
C33_StoredRecordsLoad ==
    \A p \in Paths :
        store[p].kind # "none" =>
            /\ load_session_context(store[p]) = "ok"
            /\ required_fields \subseteq store[p].keys
            /\ store[p].session_id = p[2]

\* C34: in a race of an assist and a follow-up on one session the file is the
\* whole record of the last writer.  A follow-up that writes installs the
\* context it had loaded (task, step, instruction as loaded) with its new
\* entry, whatever the file held by then; an assist that writes installs its
\* own record, with the steps it returns and no follow-up entries.
C34_LastWriterInstallsItsRecord ==
    [][\A w \in Workers :
          /\ (req[w].pc = "loaded" /\ req'[w].resp.code = 200) =>
                LET file == store'[<<config.CONTEXT_DIR, req[w].sid>>]
                IN  /\ file = req'[w].ctx
                    /\ file.task = req[w].ctx.task
                    /\ file.step = req[w].ctx.step
                    /\ file.instruction = req[w].ctx.instruction
                    /\ QA(file) = Append(QA(req[w].ctx), Last(QA(file)))
                    /\ Last(QA(file)).question = req[w].question
          /\ (req[w].pc = "save" /\ req'[w].resp.code = 200) =>
                LET file == store'[<<"contexts", req[w].sid>>]
                IN  /\ file = context_data(req[w], nreq)
                    /\ file.instruction.steps = req'[w].resp.instruction_steps
                    /\ QA(file) = <<>>]_vars

\* The follow-up loaded the record, the assist then stored and returned new
\* steps, the follow-up wrote last: both answered 200 and the stored steps
\* are the old ones, not the ones the assist returned.
C34_Witness ==
    /\ AssistDone("w1") /\ req["w1"].resp.code = 200
    /\ AskAnswered("w2") /\ req["w2"].resp.code = 200
    /\ req["w1"].sid = req["w2"].sid
    /\ store[<<"contexts", req["w1"].sid>>] = req["w2"].ctx
    /\ store[<<"contexts", req["w1"].sid>>].instruction.steps
          # req["w1"].resp.instruction_steps
    /\ Len(QA(store[<<"contexts", req["w1"].sid>>])) = 1

\* C35: a request touches no record but its own session's: whenever the file
\* under a key is created or changed, a request whose session id is that key
\* has just made a write attempt, under every interleaving of the requests.
C35_SessionsIsolated ==
    [][\A p \in Paths :
          store'[p] # store[p] =>
              \E w \in Workers :
                  /\ req'[w].writes = req[w].writes + 1
                  /\ req[w].sid = p[2]]_vars

\* C36: no request makes more calls than its bound: an assist request makes
\* at most two inference calls and one file write, a follow-up request at
\* most one inference call and one file write.
C36_Bounded ==
    \A w \in Workers :
        /\ req[w].kind = "assist" => Len(req[w].outcomes) <= 2
        /\ req[w].kind = "ask" => Len(req[w].outcomes) <= 1
        /\ req[w].writes <= 1
        /\ req[w].pc = "done" => req[w].resp.status \in {"success", "error"}

\* C36: no stage is entered again: a request goes from the inference stage
\* to the save stage to its response, or from the loaded record to its
\* response; a step that stays in the inference stage is one more call, and
\* a step that ends a request makes at most one write.
C36_Forward ==
    \A w \in Workers :
        /\ req[w].pc = "analyze" =>
              \/ req'[w] = req[w]
              \/ /\ req'[w].pc \in {"analyze", "save"}
                 /\ req'[w].writes = 0
                 /\ req[w].image # "" =>
                        Len(req'[w].outcomes) = Len(req[w].outcomes) + 1
        /\ req[w].pc = "save" =>
              \/ req'[w] = req[w]
              \/ /\ req'[w].pc = "done"
                 /\ req'[w].outcomes = req[w].outcomes
        /\ req[w].pc = "loaded" =>
              \/ req'[w] = req[w]
              \/ /\ req'[w].pc = "done"
                 /\ req[w].outcomes = <<>>
        /\ req[w].pc = "done" => req'[w] \in {req[w], Idle}

\* C36: provided every inference call returns or raises, every assist request
\* and every follow-up request that reached the pipeline ends with a success
\* or an error response, within its bound of calls and writes, and never goes
\* back to a stage it has left.
C36_Terminates ==
    /\ []C36_Bounded
    /\ [][C36_Forward]_vars
    /\ \A w \in Workers :
          (req[w].pc \in {"analyze", "save", "loaded"}) ~> (req[w].pc = "done")

\* C36 witness: an assist that needed its two calls and a follow-up have both
\* ended, each after one write.
C36_Witness ==
    /\ req["w1"].pc = "done" /\ req["w1"].kind = "assist"
    /\ Len(req["w1"].outcomes) = 2 /\ req["w1"].writes = 1
    /\ req["w2"].pc = "done" /\ req["w2"].kind = "ask"
    /\ Len(req["w2"].outcomes) = 1 /\ req["w2"].writes = 1

\* C37: a run of the assist workflow without image data never calls the
\* inference client, ends in a state that carries an error with target_id ""
\* and haptic_cue "none", and writes no context file.
C37_NoImageNoCallNoFile ==
    [][\A w \in Workers :
          (req'[w].kind = "assist" /\ req'[w].image = ""
             /\ req'[w].pc \in {"save", "done"}) =>
              /\ req'[w].outcomes = <<>>
              /\ req'[w].st.error # ""
              /\ req'[w].st.target_id = Str("")
              /\ req'[w].st.haptic_cue = Str("none")
              /\ req'[w].writes = 0
              /\ store' = store]_vars

\* C37 witness: a run without an image has passed both nodes and ended with
\* the error of the first.
C37_Witness ==
    \E w \in Workers :
        /\ req[w].kind = "assist" /\ req[w].image = "" /\ req[w].pc = "done"
        /\ req[w].st.error = "No image data provided"
        /\ req[w].resp.code = 500

\* C38: every request that reached the pipeline works on a non-empty session
\* id: the id an assist writes under and returns, and the id a follow-up loads
\* and rewrites, is never the empty string, whatever session_id the caller
\* sent.
C38_KeyNonEmpty ==
    \A w \in Workers :
        req[w].pc \in {"analyze", "save", "loaded"} => req[w].sid # <<>>

====
